---- MODULE Spec2Model ----
(***************************************************************************)
(* Model of src/vrp_optimiser.py: nearest-warehouse assignment, truck      *)
(* allocation (round, then patch the largest warehouse), round-robin load  *)
(* partitioning and route aggregation.                                     *)
(*                                                                         *)
(* Three specifications are given:                                         *)
(*   Spec        main(): assignment, allocation, partitioning, routing     *)
(*   SpecAssign  one call of RouteOptimiser.assign_postcodes_to_warehouses *)
(*               with its local warehouse_distances kept in the state      *)
(*   SpecDivide  one call of divide_postcodes_among_trucks                 *)
(*                                                                         *)
(* Warehouses and postcodes are strings in the source; here they are the   *)
(* identifiers 1..n in input order (all non-empty strings, hence truthy).  *)
(***************************************************************************)
EXTENDS Integers, Sequences, FiniteSets, TLC

\* ---------------------------------------------------------------- bounds
MaxWarehouses == 3
MaxPostcodes == 2
MaxTrucks == 3
MaxDivideLen == 4
MaxNumTrucks == 4

\* ------------------------------------------------------- program constants
\* Python's None (get_distance line 69; nearest_warehouse line 157).
None == -1
\* float('inf'), the initial min_distance: above every oracle distance.
Infinity == 1000000
\* total_distance / 1000: metres to kilometres.
MetresPerKm == 1000

\* Distances (metres) the distance oracle may answer for a pair.
DistanceValues == {1, 2}
\* The distances the oracle answers in the runs of main(): main() keeps only
\* the assignment, and answers of "a distance or None" already produce every
\* assignment of postcodes to warehouses (a postcode goes to warehouse w when
\* w alone answers).
MainDistanceValues == {1}
\* The postcodes a list handed to divide_postcodes_among_trucks is made of.
DividePostcodes == {1, 2}
\* Leg distances (metres) the route oracle may answer: whole kilometres, so
\* that the division by 1000 is exact as it is in floating point.
LegDistances == {1000, 2000}

VARIABLES
    pc,                       \* position in main() or in the called function
    warehouses,               \* input list of warehouses
    postcodes,                \* input list of delivery postcodes
    total_trucks,             \* fleet size
    warehouse_distances,      \* local of assign_postcodes_to_warehouses
    warehouse_assignments,    \* warehouse -> list of postcodes
    trucks_per_warehouse,     \* warehouse -> truck count
    w_index,                  \* position of main's loop over warehouses
    trucks,                   \* warehouse -> (truck id -> list of postcodes)
    route_info,               \* warehouse -> (truck id -> legs the route oracle gave)
    truck_routes,             \* warehouse -> (truck id -> route, total_distance)
    warehouse_total_distance, \* warehouse -> km
    grand_total_distance,     \* km
    num_trucks                \* argument of divide_postcodes_among_trucks

vars == <<pc, warehouses, postcodes, total_trucks, warehouse_distances,
          warehouse_assignments, trucks_per_warehouse, w_index, trucks,
          route_info, truck_routes, warehouse_total_distance, grand_total_distance,
          num_trucks>>

\* ---------------------------------------------------------------- helpers
Range(s) == {s[i] : i \in 1..Len(s)}

\* The list <<1, ..., n>>.
Ids(n) == [i \in 1..n |-> i]

\* The empty dict.
EmptyDict == [x \in {} |-> 0]

\* d[k] = v on a dict (a function with a finite domain).
DictSet(d, k, v) == [x \in DOMAIN d \cup {k} |-> IF x = k THEN v ELSE d[x]]

Max2(a, b) == IF a >= b THEN a ELSE b

\* ------------------------------------------------- the distance oracle
\* Every behaviour of the oracle: per (warehouse, postcode) pair a distance
\* or None.
DistanceOracles(ws, ps, values) ==
    [Range(ws) \X Range(ps) -> values \cup {None}]

\* RouteOptimiser.get_distance: the oracle's answer for the pair.
get_distance(oracle, origin, destination) == oracle[<<origin, destination>>]

\* RouteOptimiser.calculate_warehouse_distances: warehouse -> postcode ->
\* distance, holding only the pairs with an answer.
calculate_warehouse_distances(oracle, ws, ps) ==
    [w \in Range(ws) |->
        [p \in {q \in Range(ps) : get_distance(oracle, w, q) # None} |->
            get_distance(oracle, w, p)]]

\* ------------------------------------------- assign_postcodes_to_warehouses
\* if distance < min_distance
CloserOrEqual(distance, min_distance) == distance <= min_distance
Closer(distance, min_distance) == distance < min_distance

\* The inner loop over warehouses for one postcode, from warehouse i on,
\* carrying (min_distance, nearest_warehouse).
RECURSIVE NearestScan(_, _, _, _, _, _)
NearestScan(wd, ws, postcode, i, min_distance, nearest_warehouse) ==
    IF i > Len(ws) THEN nearest_warehouse
    ELSE LET warehouse == ws[i] IN
         IF postcode \in DOMAIN wd[warehouse]
            /\ Closer(wd[warehouse][postcode], min_distance)
         THEN NearestScan(wd, ws, postcode, i + 1,
                          wd[warehouse][postcode], warehouse)
         ELSE NearestScan(wd, ws, postcode, i + 1,
                          min_distance, nearest_warehouse)

nearest_warehouse_of(wd, ws, postcode) ==
    NearestScan(wd, ws, postcode, 1, Infinity, None)

\* The fallback: warehouses[0].
LastWarehouse(ws) == ws[Len(ws)]
FallbackWarehouse(ws) == ws[1]

\* warehouse_assignments[w].append(postcode)
AppendShared(wa, w, postcode) ==
    [x \in DOMAIN wa |-> Append(wa[x], postcode)]
AppendAssigned(wa, w, postcode) == [wa EXCEPT ![w] = Append(@, postcode)]

\* The outer loop over postcodes, from postcode i on.
RECURSIVE AssignLoop(_, _, _, _, _)
AssignLoop(wd, ws, ps, i, wa) ==
    IF i > Len(ps) THEN wa
    ELSE LET postcode == ps[i]
             nearest_warehouse == nearest_warehouse_of(wd, ws, postcode)
         IN  IF nearest_warehouse # None
             THEN AssignLoop(wd, ws, ps, i + 1,
                             AppendAssigned(wa, nearest_warehouse, postcode))
             ELSE AssignLoop(wd, ws, ps, i + 1,
                             AppendAssigned(wa, FallbackWarehouse(ws), postcode))

\* The value returned, given the distances collected.
AssignFromDistances(wd, ws, ps) ==
    AssignLoop(wd, ws, ps, 1, [w \in Range(ws) |-> <<>>])

assign_postcodes_to_warehouses(oracle, ws, ps) ==
    AssignFromDistances(calculate_warehouse_distances(oracle, ws, ps), ws, ps)

\* --------------------------------------------------------- initial values
Unset == EmptyDict

InitRest ==
    /\ warehouse_distances = Unset
    /\ warehouse_assignments = Unset
    /\ trucks_per_warehouse = Unset
    /\ w_index = 0
    /\ trucks = Unset
    /\ route_info = Unset
    /\ truck_routes = Unset
    /\ warehouse_total_distance = Unset
    /\ grand_total_distance = 0

\* ------------------------------------------------------------- SpecAssign
\* One call of assign_postcodes_to_warehouses(warehouses, postcodes) with a
\* non-empty warehouse list.
InitAssign ==
    /\ pc = "call_assign"
    /\ \E nw \in 1..MaxWarehouses : warehouses = Ids(nw)
    /\ \E np \in 0..MaxPostcodes : postcodes = Ids(np)
    /\ total_trucks = 0
    /\ num_trucks = 0
    /\ InitRest

\* Line 152: every pair is asked of the oracle once.
CalculateWarehouseDistances ==
    /\ pc = "call_assign"
    /\ \E oracle \in DistanceOracles(warehouses, postcodes, DistanceValues) :
          warehouse_distances' =
              calculate_warehouse_distances(oracle, warehouses, postcodes)
    /\ pc' = "distances"
    /\ UNCHANGED <<warehouses, postcodes, total_trucks, warehouse_assignments,
                   trucks_per_warehouse, w_index, trucks, route_info, truck_routes,
                   warehouse_total_distance, grand_total_distance, num_trucks>>

\* Lines 153-172: the assignment loop and the return.
AssignNearest ==
    /\ pc = "distances"
    /\ warehouse_assignments' =
           AssignFromDistances(warehouse_distances, warehouses, postcodes)
    /\ pc' = "return_assign"
    /\ UNCHANGED <<warehouses, postcodes, total_trucks, warehouse_distances,
                   trucks_per_warehouse, w_index, trucks, route_info, truck_routes,
                   warehouse_total_distance, grand_total_distance, num_trucks>>

NextAssign == CalculateWarehouseDistances \/ AssignNearest

SpecAssign == InitAssign /\ [][NextAssign]_vars

\* ------------------------------------------------------ truck allocation
\* Python's round() on the exact value num/den (den > 0): to the nearest
\* integer, halves to the even one.
RoundHalfEven(num, den) ==
    LET q == num \div den
        r == num % den
    IN  IF 2 * r < den THEN q
        ELSE IF 2 * r > den THEN q + 1
        ELSE IF q % 2 = 0 THEN q ELSE q + 1

\* Lines 257-260: max(1, round(proportion * total_trucks)) per warehouse,
\* proportion = assigned_postcodes / total_postcodes.
RawTrucks(wa, ws, total, total_postcodes) ==
    [w \in Range(ws) |->
        Max2(1, RoundHalfEven(Len(wa[w]) * total, total_postcodes))]

\* sum(trucks_per_warehouse.values())
RECURSIVE SumValues(_, _, _)
SumValues(d, ws, i) ==
    IF i > Len(ws) THEN 0 ELSE d[ws[i]] + SumValues(d, ws, i + 1)

\* Line 263: trucks_diff.
NoDiff(total, tpw, ws) == 0
trucks_diff(total, tpw, ws) == total - SumValues(tpw, ws, 1)

\* Line 265: max(warehouses, key=len of the assignment): the first warehouse
\* with the most assigned postcodes.
RECURSIVE LargerScan(_, _, _, _)
LargerScan(wa, ws, i, best) ==
    IF i > Len(ws) THEN best
    ELSE IF Len(wa[ws[i]]) > Len(wa[best])
         THEN LargerScan(wa, ws, i + 1, ws[i])
         ELSE LargerScan(wa, ws, i + 1, best)

larger_warehouse(wa, ws) == LargerScan(wa, ws, 2, ws[1])

\* Lines 263-266: the remainder goes to the larger warehouse.
AdjustTrucks(tpw, wa, ws, total) ==
    IF trucks_diff(total, tpw, ws) # 0
    THEN [tpw EXCEPT ![larger_warehouse(wa, ws)] =
                         @ + trucks_diff(total, tpw, ws)]
    ELSE tpw

\* Lines 254-266 for total_postcodes > 0.
AllocatedTrucks(wa, ws, total, total_postcodes) ==
    AdjustTrucks(RawTrucks(wa, ws, total, total_postcodes), wa, ws, total)

\* ------------------------------------------ divide_postcodes_among_trucks
\* Python's i % n for i >= 0 and n # 0: the result has the sign of n.
PyMod(i, n) ==
    IF n > 0 THEN i % n ELSE 0 - (((0 - n) - (i % (0 - n))) % (0 - n))

\* Line 222: the truck of the i-th postcode (0-indexed).
PairedTruck(i, n) == PyMod(i \div 2, n)
TruckOf(i, n) == PyMod(i, n)

\* The loop of lines 221-222 from the i-th postcode (1-indexed) on; tr is
\* the defaultdict, which holds a key only once a postcode is appended to it.
RECURSIVE DivideLoop(_, _, _, _)
DivideLoop(ps, n, i, tr) ==
    IF i > Len(ps) THEN tr
    ELSE LET k == TruckOf(i - 1, n) IN
         DivideLoop(ps, n, i + 1,
             DictSet(tr, k, Append(IF k \in DOMAIN tr THEN tr[k] ELSE <<>>,
                                   ps[i])))

\* i % num_trucks raises ZeroDivisionError once the loop body runs.
DivideRaises(ps, n) == Len(ps) > 0 /\ n = 0

divide_postcodes_among_trucks(ps, n) == DivideLoop(ps, n, 1, EmptyDict)

\* ------------------------------------------------- the route oracle
\* Every behaviour of get_optimised_route on a waypoint list: no legs, or
\* one leg per waypoint after the first, ending at that waypoint.
RouteResponses(waypoints) ==
    {<<>>} \cup
    {[i \in 1..(Len(waypoints) - 1) |->
         [end_address |-> waypoints[i + 1], distance |-> ds[i]]] :
       ds \in [1..(Len(waypoints) - 1) -> LegDistances]}

RECURSIVE SumLegs(_, _)
SumLegs(legs, i) ==
    IF i > Len(legs) THEN 0
    ELSE legs[i].distance + SumLegs(legs, i + 1)

\* Line 196.
total_distance_of(legs) ==
    IF legs # <<>> THEN SumLegs(legs, 1) ELSE 0

\* The trucks that get an entry in truck_routes (lines 191-193, 198).
AnsweredTrucks(tr, responses) ==
    {t \in DOMAIN tr : tr[t] # <<>> /\ responses[t] # <<>>}
RoutedTrucks(tr, responses) == {t \in DOMAIN tr : tr[t] # <<>>}

\* RouteOptimiser.optimise_routes_for_trucks, responses[t] being the route
\* oracle's answer for truck t.
optimise_routes_for_trucks(tr, warehouse, responses) ==
    [t \in RoutedTrucks(tr, responses) |->
        [route |-> [i \in 1..Len(responses[t]) |-> responses[t][i].end_address],
         total_distance |-> total_distance_of(responses[t]) \div MetresPerKm]]

\* Sum of total_distance over the entries of a truck_routes dict.
RECURSIVE SumRoutes(_, _)
SumRoutes(routes, ids) ==
    IF ids = {} THEN 0
    ELSE LET t == CHOOSE x \in ids : TRUE IN
         routes[t].total_distance + SumRoutes(routes, ids \ {t})

\* ------------------------------------------------------------------ Spec
\* main() on a non-empty warehouse list, any postcode list and a positive
\* fleet size.
Init ==
    /\ pc = "assign"
    /\ \E nw \in 1..MaxWarehouses : warehouses = Ids(nw)
    /\ \E np \in 0..MaxPostcodes : postcodes = Ids(np)
    /\ total_trucks \in 1..MaxTrucks
    /\ num_trucks = 0
    /\ InitRest

\* Line 251.
Assign ==
    /\ pc = "assign"
    /\ \E oracle \in DistanceOracles(warehouses, postcodes,
                                      MainDistanceValues) :
          warehouse_assignments' =
              assign_postcodes_to_warehouses(oracle, warehouses, postcodes)
    /\ pc' = "allocate"
    /\ UNCHANGED <<warehouses, postcodes, total_trucks, warehouse_distances,
                   trucks_per_warehouse, w_index, trucks, route_info, truck_routes,
                   warehouse_total_distance, grand_total_distance, num_trucks>>

\* Lines 254-266 with at least one postcode.
Allocate ==
    /\ pc = "allocate"
    /\ Len(postcodes) # 0
    /\ trucks_per_warehouse' =
           AllocatedTrucks(warehouse_assignments, warehouses, total_trucks,
                           Len(postcodes))
    /\ pc' = "route"
    /\ w_index' = 1
    /\ UNCHANGED <<warehouses, postcodes, total_trucks, warehouse_distances,
                   warehouse_assignments, trucks, route_info, truck_routes,
                   warehouse_total_distance, grand_total_distance, num_trucks>>

\* Line 259 with total_postcodes = 0: the division raises.
AllocateRaises ==
    /\ pc = "allocate"
    /\ Len(postcodes) = 0
    /\ pc' = "ZeroDivisionError"
    /\ UNCHANGED <<warehouses, postcodes, total_trucks, warehouse_distances,
                   warehouse_assignments, trucks_per_warehouse, w_index,
                   trucks, route_info, truck_routes, warehouse_total_distance,
                   grand_total_distance, num_trucks>>

\* Lines 277-278: a warehouse without postcodes is skipped.
SkipWarehouse ==
    /\ pc = "route"
    /\ w_index <= Len(warehouses)
    /\ warehouse_assignments[warehouses[w_index]] = <<>>
    /\ w_index' = w_index + 1
    /\ UNCHANGED <<pc, warehouses, postcodes, total_trucks, warehouse_distances,
                   warehouse_assignments, trucks_per_warehouse, trucks,
                   route_info, truck_routes, warehouse_total_distance,
                   grand_total_distance, num_trucks>>

\* Line 281 with num_trucks = 0: i % num_trucks raises.
RouteRaises ==
    /\ pc = "route"
    /\ w_index <= Len(warehouses)
    /\ LET warehouse == warehouses[w_index] IN
        /\ warehouse_assignments[warehouse] # <<>>
        /\ DivideRaises(warehouse_assignments[warehouse],
                        trucks_per_warehouse[warehouse])
    /\ pc' = "ZeroDivisionError"
    /\ UNCHANGED <<warehouses, postcodes, total_trucks, warehouse_distances,
                   warehouse_assignments, trucks_per_warehouse, w_index,
                   trucks, route_info, truck_routes, warehouse_total_distance,
                   grand_total_distance, num_trucks>>

\* Lines 272-306 for one warehouse: partition, route every truck, add up.
RouteWarehouse ==
    /\ pc = "route"
    /\ w_index <= Len(warehouses)
    /\ LET warehouse == warehouses[w_index]
           assigned_postcodes == warehouse_assignments[warehouse]
           n == trucks_per_warehouse[warehouse]
       IN
        /\ assigned_postcodes # <<>>
        /\ ~DivideRaises(assigned_postcodes, n)
        /\ LET tr == divide_postcodes_among_trucks(assigned_postcodes, n) IN
           \E responses \in
                 [DOMAIN tr -> UNION {RouteResponses(<<warehouse>> \o tr[t]
                                                     \o <<warehouse>>) :
                                      t \in DOMAIN tr}] :
              /\ \A t \in DOMAIN tr :
                    responses[t] \in RouteResponses(<<warehouse>> \o tr[t]
                                                    \o <<warehouse>>)
              /\ LET routes == optimise_routes_for_trucks(tr, warehouse,
                                                          responses)
                     total == SumRoutes(routes, DOMAIN routes)
                 IN  /\ trucks' = DictSet(trucks, warehouse, tr)
                     /\ route_info' = DictSet(route_info, warehouse, responses)
                     /\ truck_routes' = DictSet(truck_routes, warehouse, routes)
                     /\ warehouse_total_distance' =
                            DictSet(warehouse_total_distance, warehouse, total)
                     /\ grand_total_distance' = grand_total_distance + total
    /\ w_index' = w_index + 1
    /\ UNCHANGED <<pc, warehouses, postcodes, total_trucks, warehouse_distances,
                   warehouse_assignments, trucks_per_warehouse, num_trucks>>

\* Lines 308-310: the grand total is printed and main returns.
PrintGrandTotal ==
    /\ pc = "route"
    /\ w_index > Len(warehouses)
    /\ pc' = "done"
    /\ UNCHANGED <<warehouses, postcodes, total_trucks, warehouse_distances,
                   warehouse_assignments, trucks_per_warehouse, w_index,
                   trucks, route_info, truck_routes, warehouse_total_distance,
                   grand_total_distance, num_trucks>>

Next ==
    \/ Assign
    \/ Allocate
    \/ AllocateRaises
    \/ SkipWarehouse
    \/ RouteRaises
    \/ RouteWarehouse
    \/ PrintGrandTotal

Spec == Init /\ [][Next]_vars

\* ------------------------------------------------------------- SpecDivide
\* One call of divide_postcodes_among_trucks(postcodes, num_trucks) with
\* num_trucks >= 1; the result is kept in trucks under key 0.
InitDivide ==
    /\ pc = "call_divide"
    /\ warehouses = <<>>
    /\ \E np \in 0..MaxDivideLen : postcodes \in [1..np -> DividePostcodes]
    /\ total_trucks = 0
    /\ num_trucks \in 1..MaxNumTrucks
    /\ InitRest

Divide ==
    /\ pc = "call_divide"
    /\ trucks' = DictSet(trucks, 0,
                         divide_postcodes_among_trucks(postcodes, num_trucks))
    /\ pc' = "return_divide"
    /\ UNCHANGED <<warehouses, postcodes, total_trucks, warehouse_distances,
                   warehouse_assignments, trucks_per_warehouse, w_index,
                   route_info, truck_routes, warehouse_total_distance,
                   grand_total_distance, num_trucks>>

NextDivide == Divide

SpecDivide == InitDivide /\ [][NextDivide]_vars

\* ================================================================ claims
\* The warehouses with an oracle distance for postcode p.
Available(p) ==
    {w \in Range(warehouses) : p \in DOMAIN warehouse_distances[w]}

\* The (warehouse, position) places where postcode p stands in the result.
Places(p) ==
    {<<w, i>> \in Range(warehouses) \X (1..Len(postcodes)) :
        /\ i <= Len(warehouse_assignments[w])
        /\ warehouse_assignments[w][i] = p}

\* The position of warehouse w in the input list.
Position(w) == CHOOSE i \in 1..Len(warehouses) : warehouses[i] = w

\* The warehouse postcode p was assigned to.
AssignedTo(p) == CHOOSE w \in Range(warehouses) :
                     p \in Range(warehouse_assignments[w])

\* C1: the value returned by assign_postcodes_to_warehouses is a partition
\* of the postcode list: its keys are the warehouses, every input postcode
\* stands at exactly one place of exactly one warehouse's list, and the
\* lists together hold nothing but the input postcodes (their lengths add
\* up to the input's length).
C1_Partition ==
    pc = "return_assign" =>
        /\ DOMAIN warehouse_assignments = Range(warehouses)
        /\ \A p \in Range(postcodes) : Cardinality(Places(p)) = 1
        /\ \A w \in Range(warehouses) :
              Range(warehouse_assignments[w]) \subseteq Range(postcodes)
        /\ SumValues([w \in Range(warehouses) |->
                         Len(warehouse_assignments[w])], warehouses, 1)
           = Len(postcodes)

\* C1 witness: two postcodes were assigned, to two different warehouses.
C1_Witness ==
    /\ pc = "return_assign"
    /\ Len(postcodes) = 2
    /\ Len(warehouses) >= 2
    /\ warehouse_assignments[warehouses[1]] # <<>>
    /\ warehouse_assignments[warehouses[2]] # <<>>

\* C4: a postcode with at least one available distance is assigned to a
\* warehouse whose distance is available and minimal among the available
\* ones, and no warehouse earlier in the input order is as near.
C4_NearestFirst ==
    pc = "return_assign" =>
        \A p \in Range(postcodes) :
            Available(p) # {} =>
                LET w == AssignedTo(p) IN
                /\ w \in Available(p)
                /\ \A v \in Available(p) :
                      /\ warehouse_distances[w][p] <= warehouse_distances[v][p]
                      /\ Position(v) < Position(w) =>
                            warehouse_distances[w][p] < warehouse_distances[v][p]

\* C4 witness: the first two warehouses are equally near a postcode and the
\* first one got it.
C4_Witness ==
    /\ pc = "return_assign"
    /\ Len(warehouses) >= 2
    /\ \E p \in Range(postcodes) :
          /\ {warehouses[1], warehouses[2]} \subseteq Available(p)
          /\ warehouse_distances[warehouses[1]][p]
             = warehouse_distances[warehouses[2]][p]
          /\ p \in Range(warehouse_assignments[warehouses[1]])

\* C5: a postcode for which the oracle was unavailable at every warehouse is
\* in the first warehouse's list and in no other list, whatever the oracle
\* answered for the other postcodes.
C5_FallbackFirst ==
    pc = "return_assign" =>
        \A p \in Range(postcodes) :
            Available(p) = {} =>
                \A w \in Range(warehouses) :
                    (p \in Range(warehouse_assignments[w]))
                        <=> (w = warehouses[1])

\* C5 witness: one postcode fell back to the first of several warehouses
\* while another postcode went to the second warehouse.
C5_Witness ==
    /\ pc = "return_assign"
    /\ Len(warehouses) >= 2
    /\ \E p, q \in Range(postcodes) :
          /\ Available(p) = {}
          /\ p \in Range(warehouse_assignments[warehouses[1]])
          /\ Available(q) # {}
          /\ q \in Range(warehouse_assignments[warehouses[2]])

\* C10: a call in which some postcode fell back to the first warehouse
\* (every distance query for it was unavailable) returns a result that no
\* call without such an event returns: the event can be told from the result.
C10_FallbackObservable ==
    (pc = "return_assign" /\ \E p \in Range(postcodes) : Available(p) = {}) =>
        \A oracle \in DistanceOracles(warehouses, postcodes, DistanceValues) :
            (\A p \in Range(postcodes) : \E w \in Range(warehouses) :
                 get_distance(oracle, w, p) # None)
            => assign_postcodes_to_warehouses(oracle, warehouses, postcodes)
               # warehouse_assignments

\* ------------------------------------------------------- claims on main()
\* Lines 254-266 have run.
Allocated == trucks_per_warehouse # Unset

\* C2: once the allocation step has run (at least one postcode, a positive
\* fleet size), the truck counts of the warehouses add up to the fleet size.
C2_AllocationSum ==
    Allocated => SumValues(trucks_per_warehouse, warehouses, 1) = total_trucks

\* C2 witness: the allocation ran and the rounded counts did not add up to
\* the fleet size, so the remainder was patched in.
C2_Witness ==
    /\ Allocated
    /\ SumValues(RawTrucks(warehouse_assignments, warehouses, total_trucks,
                           Len(postcodes)), warehouses, 1) # total_trucks

\* C3: with a fleet of at least as many trucks as warehouses, every
\* warehouse with an assigned postcode ends the allocation step with at
\* least one truck.
C3_AtLeastOneTruck ==
    (Allocated /\ total_trucks >= Len(warehouses)) =>
        \A w \in Range(warehouses) :
            warehouse_assignments[w] # <<>> => trucks_per_warehouse[w] >= 1

\* The loads of warehouse w hold its assigned postcodes exactly, the i-th
\* (0-indexed) on truck i mod the warehouse's truck count, in input order.
Abs(n) == IF n >= 0 THEN n ELSE 0 - n

LoadsCover(w) ==
    /\ w \in DOMAIN trucks
    /\ trucks_per_warehouse[w] # 0
    /\ \A i \in 1..Len(warehouse_assignments[w]) :
          LET k == PyMod(i - 1, trucks_per_warehouse[w])
              j == ((i - 1) \div Abs(trucks_per_warehouse[w])) + 1
          IN  /\ k \in DOMAIN trucks[w]
              /\ j <= Len(trucks[w][k])
              /\ trucks[w][k][j] = warehouse_assignments[w][i]
    /\ SumRoutes([t \in DOMAIN trucks[w] |->
                     [total_distance |-> Len(trucks[w][t])]], DOMAIN trucks[w])
       = Len(warehouse_assignments[w])

\* C6: when main() has ended (the fleet being at least as large as the
\* number of warehouses), every warehouse with assigned postcodes has had
\* them partitioned over its allocated trucks: the i-th on truck
\* i mod vehicle_count, each on exactly one truck, none dropped.
C6_LoadsCoverAssignment ==
    (/\ pc \in {"done", "ZeroDivisionError"}
     /\ Allocated
     /\ total_trucks >= Len(warehouses)) =>
        \A w \in Range(warehouses) :
            warehouse_assignments[w] # <<>> => LoadsCover(w)

\* The trucks of warehouse w that were given postcodes.
Loaded(w) == {t \in DOMAIN trucks[w] : trucks[w][t] # <<>>}

\* Sum of the leg distances (metres) the oracle gave for the trucks in ids.
RECURSIVE SumInfo(_, _)
SumInfo(info, ids) ==
    IF ids = {} THEN 0
    ELSE LET t == CHOOSE x \in ids : TRUE IN
         SumLegs(info[t], 1) + SumInfo(info, ids \ {t})

\* Sum of the warehouse totals over the warehouses in ws.
RECURSIVE SumTotals(_)
SumTotals(ws) ==
    IF ws = {} THEN 0
    ELSE LET w == CHOOSE x \in ws : TRUE IN
         warehouse_total_distance[w] + SumTotals(ws \ {w})

\* C8: every loaded truck of a routed warehouse is in the results, one whose
\* route query gave no legs with an empty route and distance zero; the
\* warehouse total (km) is the sum of the leg distances (metres) of the
\* trucks whose query gave legs, and the fleet total is the sum of the
\* warehouse totals.
C8_RouteFailureDegrades ==
    /\ \A w \in DOMAIN truck_routes :
          /\ DOMAIN truck_routes[w] = Loaded(w)
          /\ \A t \in Loaded(w) :
                route_info[w][t] = <<>> =>
                    /\ truck_routes[w][t].route = <<>>
                    /\ truck_routes[w][t].total_distance = 0
          /\ warehouse_total_distance[w] * MetresPerKm =
                SumInfo(route_info[w],
                        {t \in Loaded(w) : route_info[w][t] # <<>>})
    /\ grand_total_distance = SumTotals(DOMAIN warehouse_total_distance)

\* C8 witness: main() ended with a warehouse where one truck's route query
\* gave no legs and another truck's query gave legs.
C8_Witness ==
    /\ pc = "done"
    /\ \E w \in DOMAIN truck_routes : \E t, u \in Loaded(w) :
          /\ route_info[w][t] = <<>>
          /\ route_info[w][u] # <<>>
          /\ grand_total_distance > 0

\* C9: with a non-empty warehouse list, any postcode list and a fleet of at
\* least as many trucks as warehouses, no stage of main() raises.
C9_NeverRaises ==
    total_trucks >= Len(warehouses) => pc # "ZeroDivisionError"

\* ------------------------------------- claims on divide_postcodes_among_trucks
\* The number of postcodes on truck t of the returned dict (0 without a key).
LoadSize(t) == IF t \in DOMAIN trucks[0] THEN Len(trucks[0][t]) ELSE 0

\* C7: with num_trucks >= 1, only trucks 0..num_trucks-1 get postcodes and
\* the loads of any two of these trucks differ in size by at most one.
C7_EvenSplit ==
    pc = "return_divide" =>
        /\ DOMAIN trucks[0] \subseteq 0..(num_trucks - 1)
        /\ \A a, b \in 0..(num_trucks - 1) : LoadSize(a) - LoadSize(b) <= 1

\* C7 witness: the list does not divide evenly: some truck holds two
\* postcodes and another one.
C7_Witness ==
    /\ pc = "return_divide"
    /\ \E a, b \in 0..(num_trucks - 1) : LoadSize(a) = 2 /\ LoadSize(b) = 1

====
